---- MODULE Spec2Model ----
(***************************************************************************)
(* Political-spectrum-app: the narration scheduler, the headline fetch and  *)
(* the JSON extraction of src/index.tsx (the richest of the three variants *)
(* of the application), as a state machine.                                 *)
(*                                                                           *)
(* Texts are sequences of tokens: a word (a run of characters holding no    *)
(* sentence delimiter and no white space), one white-space character " ",   *)
(* or one of the sentence delimiters ".", "!", "?".                         *)
(***************************************************************************)
EXTENDS Integers, Sequences, FiniteSets, TLC

\* ------------------------------------------------------------------ bounds
\* setTimeout(speakNext) timers pending at once
MaxTimers == 2
\* utterances handed to the device and not yet finished
MaxSynthQueue == 2
\* cancelled utterances whose device event is still in flight
MaxLate == 1
\* tokens in a response text
MaxText == 5
\* headlines in a response, both sides together
MaxHeadlines == 3
\* entries of the articles list of a search answer
MaxArticles == 3
MaxVoices == 2
MaxUnitText == 2
MaxTicker == 2
MaxTickerPending == 2

\* the number of headlines shown as the latest
LatestCount == 2

\* ------------------------------------------------------------- text helpers
Null == "null"
NoCard == "none"
\* analysis === null
NoAnalysis == [topic |-> Null]
NullValue == [null |-> TRUE]
NoResponse == [kind |-> "none"]
\* no function applied yet
NoArg == [none |-> TRUE]

Range(f) == {f[i] : i \in DOMAIN f}
Min(S) == CHOOSE x \in S : \A y \in S : x <= y
Max(S) == CHOOSE x \in S : \A y \in S : x >= y

IsDelim(c) == c \in {".", "!", "?"}

\* String.prototype.trim
Trim(t) ==
  LET keep == {i \in 1..Len(t) : t[i] # " "}
  IN  IF keep = {} THEN <<>> ELSE SubSeq(t, Min(keep), Max(keep))

\* end of the maximal run of non-delimiters that starts at i
RunEnd(t, i) ==
  LET stops == {j \in i..Len(t) : IsDelim(t[j])}
  IN  IF stops = {} THEN Len(t) ELSE Min(stops) - 1

\* text.match(/[^.!?]+[.!?]?/g): the matches from position i on
RECURSIVE MatchFrom(_, _)
MatchFrom(t, i) ==
  IF i > Len(t) THEN <<>>
  ELSE IF IsDelim(t[i]) THEN MatchFrom(t, i + 1)
  ELSE LET j == RunEnd(t, i)
           e == IF j + 1 <= Len(t) /\ IsDelim(t[j + 1]) THEN j + 1 ELSE j
       IN  <<SubSeq(t, i, e)>> \o MatchFrom(t, e + 1)

\* text.match(...) || [text]
Sentences(t) ==
  LET m == MatchFrom(t, 1) IN IF m = <<>> THEN <<t>> ELSE m

\* a push of every sentence as matched, trimmed or not
RECURSIVE PushSentencesAll(_, _, _)
PushSentencesAll(queue, cardId, ss) ==
  IF ss = <<>> THEN queue
  ELSE PushSentencesAll(Append(queue, [cardId |-> cardId, text |-> Head(ss)]),
                        cardId, Tail(ss))

RECURSIVE PushSentences(_, _, _)
PushSentences(queue, cardId, ss) ==
  IF ss = <<>> THEN queue
  ELSE LET trimmed == Trim(Head(ss))
           q == IF trimmed # <<>>
                THEN Append(queue, [cardId |-> cardId, text |-> trimmed])
                ELSE queue
       IN  PushSentences(q, cardId, Tail(ss))

\* addToQueue(cardId, text, shouldSplit); a missing text is the empty text
addToQueue(queue, cardId, text, shouldSplit) ==
  IF Trim(text) = <<>> THEN queue
  ELSE IF shouldSplit THEN PushSentences(queue, cardId, Sentences(text))
  ELSE Append(queue, [cardId |-> cardId, text |-> text])

RECURSIVE AddPoints(_, _, _)
AddPoints(queue, cardId, points) ==
  IF points = <<>> THEN queue
  ELSE AddPoints(addToQueue(queue, cardId, Head(points), TRUE), cardId, Tail(points))

\* the speechQueue that handleGlobalSpeech builds from the stored analysis
BuildQueue(a) ==
  LET q1  == addToQueue(<<>>, "right-wing", <<"Right-Wing", " ", "Perspective", ".">>, FALSE)
      q2  == addToQueue(q1, "right-wing", <<"Title:", " ">> \o a.rightWingArticle.title, FALSE)
      q3  == addToQueue(q2, "right-wing", <<"Source:", " ">> \o a.rightWingArticle.source, FALSE)
      q4  == addToQueue(q3, "right-wing", <<"Summary:">>, FALSE)
      q5  == addToQueue(q4, "right-wing", a.rightWingArticle.summary, TRUE)
      q6  == addToQueue(q5, "right-wing", <<"Narrative", " ", "and", " ", "Spin", " ", "Analysis:">>, FALSE)
      q7  == addToQueue(q6, "right-wing", a.rightWingArticle.spinAnalysis, TRUE)
      q8  == addToQueue(q7, "left-wing", <<"Left-Wing", " ", "Perspective", ".">>, FALSE)
      q9  == addToQueue(q8, "left-wing", <<"Title:", " ">> \o a.leftWingArticle.title, FALSE)
      q10 == addToQueue(q9, "left-wing", <<"Source:", " ">> \o a.leftWingArticle.source, FALSE)
      q11 == addToQueue(q10, "left-wing", <<"Summary:">>, FALSE)
      q12 == addToQueue(q11, "left-wing", a.leftWingArticle.summary, TRUE)
      q13 == addToQueue(q12, "left-wing", <<"Portrayal", " ", "of", " ", "Right-Wing", " ", "View:">>, FALSE)
      q14 == addToQueue(q13, "left-wing", a.leftWingArticle.portrayalOfRight, TRUE)
      q15 == addToQueue(q14, "leftist-points", <<"Leftist", " ", "Talking", " ", "Points", ".">>, FALSE)
      q16 == AddPoints(q15, "leftist-points", a.leftistTalkingPoints)
      q17 == addToQueue(q16, "socialist-points", <<"Socialist", " ", "Talking", " ", "Points", ".">>, FALSE)
  IN  AddPoints(q17, "socialist-points", a.socialistTalkingPoints)

\* --------------------------------------------------------------- the service
Topics == {"t1", "t2"}

\* the finalResult getAnalysis assembles for a topic the service answers well
ServiceResult(topic) ==
  IF topic = "t1"
  THEN [topic |-> topic,
        rightWingArticle |-> [title |-> <<"A">>, source |-> <<"Fox">>,
                              summary |-> <<"a", ".", " ", "b">>,
                              spinAnalysis |-> <<>>],
        leftWingArticle |-> [title |-> <<"B">>, source |-> <<"CNN">>,
                             summary |-> <<>>,
                             portrayalOfRight |-> <<>>],
        leftistTalkingPoints |-> << <<"p", "!">> >>,
        socialistTalkingPoints |-> <<>>]
  ELSE [topic |-> topic,
        rightWingArticle |-> [title |-> <<"C">>, source |-> <<"Wire">>,
                              summary |-> <<>>,
                              spinAnalysis |-> <<>>],
        leftWingArticle |-> [title |-> <<"D">>, source |-> <<"MSNBC">>,
                             summary |-> <<"f", ".">>,
                             portrayalOfRight |-> <<>>],
        leftistTalkingPoints |-> <<>>,
        socialistTalkingPoints |-> << <<"q", "?">>, <<" ">> >>]

\* error messages
InvalidFormatMsg == "The AI returned an invalid format. Please try again."
ArticlesNotFoundMsg == "The AI could not find suitable left and right-leaning articles for this topic. Please try a different headline."
SpeechFailedMsg == "Speech synthesis failed. Please try a different voice or refresh the page."
UnsupportedMsg == "Sorry, your browser does not support text-to-speech."
HeadlinesFailedMsg == "Failed to fetch headlines."
TypeErrorMsg == "Cannot read properties of undefined"
TransportMsg == "Failed to fetch"
NotInitializedMsg == "AI client not initialized."
ApiKeyMsg == "API_KEY is not set. Please check your environment variables."
ApiKeyHeadlinesMsg == "API_KEY is not set."

AnalysisFailures == {InvalidFormatMsg, ArticlesNotFoundMsg}

\* -------------------------------------------------------------------- state
VARIABLES
  analysis,               \* useState<AnalysisResult | null>
  loading,                \* useState<boolean>
  error,                  \* useState<string | null>
  calls,                  \* topics of the getAnalysis calls awaiting the service
  speechSupported,        \* 'speechSynthesis' in window
  globalSpeechState,      \* 'stopped' | 'playing' | 'paused'
  currentlySpeakingCard,  \* the card being read, or none
  speechQueueRef,         \* speechQueueRef.current: utterances and currentIndex
  timers,                 \* pending setTimeout(speakNext): cur of the session started
                          \* last, old of the sessions before it
  synth,                  \* window.speechSynthesis: its queue, head started, paused
  late,                   \* closing events of cancelled utterances still in flight:
                          \* cur of the session started last, old of those before
  handed,                 \* history: units handed to speak() in this session, see Hand
  clean,                  \* history: no pause in this session so far
  last,                   \* history: the handler that ran last, and the speech state before it
  step,                   \* where the getAnalysis call in flight stands: "idle",
                          \* "search" (awaiting the search answer), "analysis"
  responseText,           \* history: the response text handed to safeParseJson last
  parsed,                 \* history: what safeParseJson made of it
  headlines,              \* useState<Headlines | null>
  latestHeadlines,        \* useState<Headline[] | null>
  headlinesLoading,       \* useState<boolean>(true)
  headlinesError,         \* useState<string | null>
  fetchStep,              \* fetchHeadlines: "mount", "pending", "done"
  response,               \* history: what the service answered to fetchHeadlines
  run,                    \* the getAnalysis call followed step by step: where it
                          \* stands, its local variables, and as history the
                          \* answers it got, the requests it issued, its warnings
  voices,                 \* useState<SpeechSynthesisVoice[]>([])
  selectedVoiceURI,       \* useState<string>('')
  onvoiceschanged,        \* window.speechSynthesis.onvoiceschanged: "unset" before
                          \* the mount effect, then "loadVoices" or "null"
  userVoice,              \* history: the voiceURI the user picked last, NoURI if none
  preferredVoice,         \* history: the voice the utterances built last were given
  issued,                 \* history: the topic of the getAnalysis call issued last,
                          \* Null from a return to the headline list on
  ai,                     \* ai.current: "unset" before the mount effect, then
                          \* "client" or "none"
  sent,                   \* history: the kinds of completion requests issued
  tickerHeadlines,        \* useState<Headline[]>([]), the ticker variant
  tickerPending,          \* fetchTickerHeadlines calls awaiting the service
  tickerLast,             \* history: the answer the refresh that ended last got,
                          \* and whether it logged
  arg,                    \* the argument a function is applied to
  out                     \* history: what the function returned

appVars == <<analysis, loading, error, calls>>
speechVars == <<globalSpeechState, currentlySpeakingCard, speechQueueRef>>
devVars == <<synth, late, timers>>
histVars == <<handed, clean>>
jsonVars == <<step, responseText, parsed>>
headlineVars == <<headlines, latestHeadlines, headlinesLoading, headlinesError,
                  fetchStep, response>>
pureVars == <<arg, out>>
voiceVars == <<voices, selectedVoiceURI, onvoiceschanged, userVoice, preferredVoice>>
keyVars == <<ai, sent>>
tickerVars == <<tickerHeadlines, tickerPending, tickerLast>>
auxVars == <<keyVars, tickerVars>>
restVars == <<run, issued, voiceVars, auxVars, pureVars>>
envVars == <<speechSupported, jsonVars, headlineVars, restVars>>
vars == <<analysis, loading, error, calls, speechSupported, globalSpeechState,
          currentlySpeakingCard, speechQueueRef, timers, synth, late,
          handed, clean, last, step, responseText, parsed, headlines,
          latestHeadlines, headlinesLoading, headlinesError, fetchStep, response,
          run, voices, selectedVoiceURI, onvoiceschanged, userVoice,
          preferredVoice, issued, ai, sent, tickerHeadlines, tickerPending,
          tickerLast, arg, out>>

EmptyQueue == [utterances |-> <<>>, currentIndex |-> 0]
IdleSynth == [queue |-> <<>>, started |-> FALSE, paused |-> FALSE]

TimerCount == timers.cur + timers.old

\* ---------------------------------------------------------------- the device
\* speechSynthesis.cancel(): the queue is emptied. The platform decides whether
\* the paused flag survives, and for how many of the removed utterances a closing
\* event (end, or error "interrupted"/"canceled") still reaches the page.
cancel(sy, lt) ==
  { [synth |-> [queue |-> <<>>, started |-> FALSE, paused |-> p],
     late |-> [lt EXCEPT !.cur = @ + n]] :
      p \in {sy.paused, FALSE},
      n \in {m \in 0..Len(sy.queue) : lt.cur + lt.old + m <= MaxLate} }

\* speechSynthesis.speak(utterance)
speak(sy, u) == [sy EXCEPT !.queue = Append(@, u)]

\* ------------------------------------------------------------- the scheduler
\* a stopSpeech() that leaves the active card as it is
stopSpeechKeepsCard(sy, lt) ==
  LET dev == IF speechSupported /\ sy.queue # <<>>
             THEN cancel(sy, lt)
             ELSE {[synth |-> sy, late |-> lt]}
  IN  { [speechQueueRef |-> EmptyQueue, synth |-> d.synth, late |-> d.late,
         globalSpeechState |-> "stopped",
         currentlySpeakingCard |-> currentlySpeakingCard] : d \in dev }

\* stopSpeech(), run against device state sy and in-flight events lt: the
\* possible results
stopSpeech(sy, lt) ==
  LET dev == IF speechSupported /\ sy.queue # <<>>
             THEN cancel(sy, lt)
             ELSE {[synth |-> sy, late |-> lt]}
  IN  { [speechQueueRef |-> EmptyQueue, synth |-> d.synth, late |-> d.late,
         globalSpeechState |-> "stopped", currentlySpeakingCard |-> NoCard] : d \in dev }

Store(r) ==
  /\ speechQueueRef' = r.speechQueueRef
  /\ synth' = r.synth
  /\ late' = r.late
  /\ globalSpeechState' = r.globalSpeechState
  /\ currentlySpeakingCard' = r.currentlySpeakingCard

Did(op) == last' = [op |-> op, pre |-> globalSpeechState]

\* utterancesWithIds: one utterance per queued unit
Utterances(a) == BuildQueue(a)

\* history of the units handed to speak() in a session without a pause: how many,
\* while each came once and in queue order; inOrder is FALSE from the first unit
\* that came out of order on
NoneHanded == [count |-> 0, inOrder |-> TRUE]
Hand(i) ==
  IF ~handed.inOrder \/ ~clean THEN handed
  ELSE IF i = handed.count + 1 THEN [handed EXCEPT !.count = i]
  ELSE [count |-> 0, inOrder |-> FALSE]

\* setTimeout(speakNext, ...) by a callback of kind k ("cur" or "old")
AddTimer(k) == timers' = [timers EXCEPT ![k] = @ + 1]

\* ------------------------------------------------------------------ handlers
\* getAnalysis(topic) up to its first await
getAnalysis(topic) ==
  /\ topic \notin calls
  /\ loading' = TRUE
  /\ error' = Null
  /\ analysis' = NoAnalysis
  /\ \E r \in stopSpeech(synth, late) : Store(r)
  /\ calls' = calls \cup {topic}
  /\ Did("getAnalysis")
  /\ UNCHANGED <<speechSupported, timers, handed, clean, headlineVars>>

\* a getAnalysis call whose answers are taken as the service's results
GetAnalysis(topic) ==
  /\ getAnalysis(topic)
  /\ UNCHANGED <<jsonVars, restVars>>

\* getAnalysis(topic) from the service's last answer on: the result is stored
SettleAnalysisOk(topic) ==
  /\ topic \in calls
  /\ calls' = calls \ {topic}
  /\ analysis' = ServiceResult(topic)
  /\ loading' = FALSE
  /\ Did("setAnalysis")
  /\ UNCHANGED <<error, envVars, speechVars, devVars, histVars>>

\* getAnalysis(topic) when a step threw: the catch and finally blocks
SettleAnalysisFail(topic) ==
  /\ topic \in calls
  /\ calls' = calls \ {topic}
  /\ \E m \in AnalysisFailures : error' = m
  /\ loading' = FALSE
  /\ Did("analysisFailed")
  /\ UNCHANGED <<analysis, envVars, speechVars, devVars, histVars>>

\* a resetView that leaves the narration running
resetViewKeepsNarration ==
  /\ analysis' = NoAnalysis
  /\ error' = Null
  /\ Did("resetView")
  /\ UNCHANGED <<loading, calls, envVars, timers, handed, clean, speechVars, synth, late>>

resetView ==
  /\ analysis' = NoAnalysis
  /\ error' = Null
  /\ \E r \in stopSpeech(synth, late) : Store(r)
  /\ Did("resetView")
  /\ UNCHANGED <<loading, calls, envVars, timers, handed, clean>>

\* handleGlobalSpeech, its branch for the stopped state with an analysis
StartSession ==
  LET us == Utterances(analysis)
  IN  \E r \in stopSpeech(synth, late) :
        IF Len(us) > 0
        THEN /\ TimerCount < MaxTimers
             /\ \E c \in cancel(r.synth, r.late) :
                  /\ synth' = c.synth
                  /\ late' = [cur |-> 0, old |-> c.late.old + c.late.cur]
             /\ speechQueueRef' = [utterances |-> us, currentIndex |-> 0]
             /\ globalSpeechState' = "playing"
             /\ currentlySpeakingCard' = r.currentlySpeakingCard
             /\ timers' = [cur |-> 1, old |-> timers.old + timers.cur]
             /\ handed' = NoneHanded
             /\ clean' = TRUE
        ELSE /\ Store(r)
             /\ UNCHANGED <<timers, handed, clean>>

\* handleGlobalSpeech, its branch for the playing state
PauseSession ==
  /\ synth' = [synth EXCEPT !.paused = TRUE]
  /\ globalSpeechState' = "paused"
  /\ clean' = FALSE
  /\ handed' = NoneHanded
  /\ UNCHANGED <<currentlySpeakingCard, speechQueueRef, late, timers>>

\* a resume that starts the queue over
ResumeRestarts ==
  /\ synth' = [synth EXCEPT !.paused = FALSE]
  /\ globalSpeechState' = "playing"
  /\ speechQueueRef' = [speechQueueRef EXCEPT !.currentIndex = 0]
  /\ UNCHANGED <<currentlySpeakingCard, late, timers, histVars>>

\* handleGlobalSpeech, its branch for the paused state
ResumeSession ==
  /\ synth' = [synth EXCEPT !.paused = FALSE]
  /\ globalSpeechState' = "playing"
  /\ UNCHANGED <<currentlySpeakingCard, speechQueueRef, late, timers, histVars>>

handleGlobalSpeech ==
  /\ IF ~speechSupported
     THEN /\ error' = UnsupportedMsg
          /\ UNCHANGED <<speechVars, devVars, histVars>>
     ELSE IF globalSpeechState = "playing"
     THEN /\ PauseSession
          /\ UNCHANGED error
     ELSE IF globalSpeechState = "paused"
     THEN /\ ResumeSession
          /\ UNCHANGED error
     ELSE IF analysis # NoAnalysis
     THEN /\ StartSession
          /\ UNCHANGED error
     ELSE UNCHANGED <<error, speechVars, devVars, histVars>>
  /\ Did("handleGlobalSpeech")
  /\ UNCHANGED <<analysis, loading, calls, envVars>>

\* a setTimeout(speakNext) timer of kind k fires
speakNext(k) ==
  /\ timers[k] > 0
  /\ timers' = [timers EXCEPT ![k] = @ - 1]
  /\ IF speechQueueRef.currentIndex >= Len(speechQueueRef.utterances)
     THEN /\ \E r \in stopSpeech(synth, late) : Store(r)
          /\ Did("allFinished")
          /\ UNCHANGED handed
     ELSE /\ Len(synth.queue) < MaxSynthQueue
          /\ synth' = speak(synth, [cardId |-> speechQueueRef.utterances[speechQueueRef.currentIndex + 1].cardId])
          /\ handed' = Hand(speechQueueRef.currentIndex + 1)
          /\ Did("speak")
          /\ UNCHANGED <<speechVars, late>>
  /\ UNCHANGED <<appVars, envVars, clean>>

\* currentUtterance.onstart
onstart(u) ==
  /\ currentlySpeakingCard' = u.cardId

\* currentUtterance.onend, of an utterance of kind k
onend(k) ==
  /\ TimerCount < MaxTimers
  /\ speechQueueRef' = [speechQueueRef EXCEPT !.currentIndex = @ + 1]
  /\ AddTimer(k)

\* an onerror that reports the failure and lets the session go on
onerrorKeepsSession(sy, lt) ==
  /\ error' = SpeechFailedMsg
  /\ Store([speechQueueRef |-> speechQueueRef, synth |-> sy, late |-> lt,
            globalSpeechState |-> globalSpeechState,
            currentlySpeakingCard |-> currentlySpeakingCard])

\* utterance.onerror, with the device left in state sy and events lt in flight
onerror(sy, lt) ==
  /\ error' = SpeechFailedMsg
  /\ \E r \in stopSpeech(sy, lt) : Store(r)

\* the device starts speaking the head of its queue
DeviceStart ==
  /\ synth.queue # <<>> /\ ~synth.started /\ ~synth.paused
  /\ synth' = [synth EXCEPT !.started = TRUE]
  /\ onstart(Head(synth.queue))
  /\ Did("onstart")
  /\ UNCHANGED <<appVars, envVars, globalSpeechState, speechQueueRef, late, timers, histVars>>

\* the device finishes the utterance it is speaking
DeviceEnd ==
  /\ synth.queue # <<>> /\ synth.started /\ ~synth.paused
  /\ synth' = [synth EXCEPT !.queue = Tail(@), !.started = FALSE]
  /\ onend("cur")
  /\ Did("onend")
  /\ UNCHANGED <<appVars, envVars, globalSpeechState, currentlySpeakingCard, late, histVars>>

\* the device fails on the head of its queue
DeviceError ==
  /\ synth.queue # <<>>
  /\ onerror([synth EXCEPT !.queue = Tail(@), !.started = FALSE], late)
  /\ Did("onerror")
  /\ UNCHANGED <<analysis, loading, calls, envVars, timers, histVars>>

\* the closing event of a cancelled utterance of kind k reaches the page
LateEnd(k) ==
  /\ late[k] > 0
  /\ late' = [late EXCEPT ![k] = @ - 1]
  /\ onend(k)
  /\ Did("lateEnd")
  /\ UNCHANGED <<appVars, envVars, globalSpeechState, currentlySpeakingCard, synth, histVars>>

LateError(k) ==
  /\ late[k] > 0
  /\ onerror(synth, [late EXCEPT ![k] = @ - 1])
  /\ Did("lateError")
  /\ UNCHANGED <<analysis, loading, calls, envVars, timers, histVars>>

\* ------------------------------------------------------- response texts, JSON
\* A response text is a sequence of tokens: "{" "}" "," as in JSON, "a" a member
\* that carries the fields the pipeline reads from the answer, "k" a member key
\* with its colon (the object that follows is its value), "x" any other prose.
Tokens == {"{", "}", ",", "a", "k", "x"}

RECURSIVE TextsOfLen(_)
TextsOfLen(n) ==
  IF n = 0 THEN {<<>>}
  ELSE {Append(t, c) : t \in TextsOfLen(n - 1), c \in Tokens}

Texts == UNION {TextsOfLen(n) : n \in 0..MaxText}

\* String.prototype.indexOf and lastIndexOf: 0-based, -1 when absent
indexOf(s, c) ==
  IF \E i \in 1..Len(s) : s[i] = c
  THEN Min({i \in 1..Len(s) : s[i] = c}) - 1
  ELSE -1

\* a lastIndexOf that stops at the first occurrence
firstIndexOf(s, c) == indexOf(s, c)

lastIndexOf(s, c) ==
  IF \E i \in 1..Len(s) : s[i] = c
  THEN Max({i \in 1..Len(s) : s[i] = c}) - 1
  ELSE -1

\* String.prototype.substring(start, end): 0-based, end exclusive
substring(s, start, end) == SubSeq(s, start + 1, end)

\* JSON values: an object is its members in insertion order, a scalar has none
Scalar == [scalar |-> TRUE, members |-> <<>>]
Obj(ms) == [scalar |-> FALSE, members |-> ms]
NoParse == [ok |-> FALSE, next |-> 0, value |-> Obj(<<>>)]

\* a repeated key keeps its place and takes the later value
Put(ms, m) ==
  IF \E i \in 1..Len(ms) : ms[i].name = m.name
  THEN [i \in 1..Len(ms) |-> IF ms[i].name = m.name THEN m ELSE ms[i]]
  ELSE Append(ms, m)

RECURSIVE ParseObject(_, _), ParseMembers(_, _, _)
\* the object that starts at position i of t
ParseObject(t, i) ==
  IF i > Len(t) \/ t[i] # "{" THEN NoParse
  ELSE IF i + 1 <= Len(t) /\ t[i + 1] = "}"
       THEN [ok |-> TRUE, next |-> i + 2, value |-> Obj(<<>>)]
       ELSE ParseMembers(t, i + 1, <<>>)

\* the members from position i to the closing brace, ms those read so far
ParseMembers(t, i, ms) ==
  LET m == IF i > Len(t) THEN NoParse
           ELSE IF t[i] = "a"
                THEN [ok |-> TRUE, next |-> i + 1, value |-> Scalar]
           ELSE IF t[i] = "k" THEN ParseObject(t, i + 1)
           ELSE NoParse
      all == Put(ms, [name |-> t[i], value |-> m.value])
  IN  IF ~m.ok \/ m.next > Len(t) THEN NoParse
      ELSE IF t[m.next] = "}"
           THEN [ok |-> TRUE, next |-> m.next + 1, value |-> Obj(all)]
      ELSE IF t[m.next] = "," THEN ParseMembers(t, m.next + 1, all)
      ELSE NoParse

\* what safeParseJson and JSON.parse give when they throw
NotParsed == [ok |-> FALSE, value |-> Obj(<<>>)]

\* JSON.parse: the value of the whole text, or a SyntaxError
JSONparse(t) ==
  LET r == ParseObject(t, 1)
  IN  IF r.ok /\ r.next = Len(t) + 1
      THEN [ok |-> TRUE, value |-> r.value]
      ELSE NotParsed

\* safeParseJson: ok and the value, or not ok (it throws InvalidFormatMsg)
safeParseJson(jsonString) ==
  LET startIndex == indexOf(jsonString, "{")
      endIndex == lastIndexOf(jsonString, "}")
  IN  IF startIndex = -1 \/ endIndex = -1 \/ endIndex < startIndex
      THEN NotParsed
      ELSE JSONparse(substring(jsonString, startIndex, endIndex + 1))

\* the answer holds the fields the pipeline goes on to read
HasFields(v) == \E i \in 1..Len(v.members) : v.members[i].name = "a"

\* the catch and finally blocks of getAnalysis
AnalysisThrows(topic, msg) ==
  /\ error' = msg
  /\ loading' = FALSE
  /\ calls' = calls \ {topic}
  /\ step' = "idle"
  /\ UNCHANGED analysis

\* a getAnalysis call whose answers are taken as the texts the service sent
GetAnalysisText(topic) ==
  /\ calls = {}
  /\ getAnalysis(topic)
  /\ step' = "search"
  /\ responseText' = <<>>
  /\ parsed' = NotParsed
  /\ UNCHANGED restVars

\* getAnalysis from the search answer to the next await
SettleSearchText(topic) ==
  /\ topic \in calls /\ step = "search"
  /\ \E text \in Texts : responseText' = text
  /\ parsed' = safeParseJson(responseText')
  /\ IF ~parsed'.ok THEN AnalysisThrows(topic, InvalidFormatMsg)
     ELSE IF ~HasFields(parsed'.value) THEN AnalysisThrows(topic, ArticlesNotFoundMsg)
     ELSE /\ step' = "analysis"
          /\ UNCHANGED appVars
  /\ Did("searchAnswer")
  /\ UNCHANGED <<speechSupported, headlineVars, restVars, speechVars, devVars, histVars>>

\* getAnalysis from the analysis answer to its end, the answer taken as the
\* service's result: it is stored
AnalysisAnswerOk(topic) ==
  /\ topic \in calls /\ step = "analysis"
  /\ analysis' = ServiceResult(topic)
  /\ loading' = FALSE
  /\ calls' = calls \ {topic}
  /\ step' = "idle"
  /\ Did("setAnalysis")
  /\ UNCHANGED <<error, responseText, parsed, speechSupported, headlineVars, restVars,
                 speechVars, devVars, histVars>>

\* the same when safeParseJson or the reading of the answer throws
AnalysisAnswerFail(topic) ==
  /\ topic \in calls /\ step = "analysis"
  /\ \E m \in {InvalidFormatMsg, TypeErrorMsg} : AnalysisThrows(topic, m)
  /\ Did("analysisFailed")
  /\ UNCHANGED <<responseText, parsed, speechSupported, headlineVars, restVars,
                 speechVars, devVars, histVars>>

\* ---------------------------------------------------------------- headlines
HeadlineTexts == {"A", "B"}
ValidDates == {"2025-06-01", "2025-08-27"}
Dates == ValidDates \cup {"soon"}

\* new Date(publishedAt).getTime() of a date that parses
getTime(d) == IF d = "2025-06-01" THEN 1 ELSE 2

\* what a headline list of a response can hold: a headline, or null
NullItem == [null |-> TRUE]
Items ==
  {[headline |-> t, publishedAt |-> d] : t \in HeadlineTexts, d \in Dates}
    \cup {NullItem}

RECURSIVE ItemSeqs(_)
ItemSeqs(n) ==
  IF n = 0 THEN {<<>>}
  ELSE {Append(s, h) : s \in ItemSeqs(n - 1), h \in Items}

\* a member leftHeadlines or rightHeadlines of the parsed body: an array, a
\* string (spread, it gives its characters) or absent
Arr(s) == [kind |-> "array", items |-> s]
StringSide == [kind |-> "string", items |-> <<[char |-> "h"]>>]
MissingSide == [kind |-> "missing", items |-> <<>>]

SidesOfLen(n) ==
  {Arr(s) : s \in ItemSeqs(n)}
    \cup (IF n = 0 THEN {MissingSide} ELSE {})
    \cup (IF n = 1 THEN {StringSide} ELSE {})

\* what the service can answer: the call rejected, a body that is empty or
\* does not parse, the body null, or an object with its two members
Responses ==
  {[kind |-> k, left |-> MissingSide, right |-> MissingSide] :
     k \in {"rejected", "empty", "unparsable", "null"}}
    \cup UNION {UNION {{[kind |-> "object", left |-> l, right |-> r] :
                          l \in SidesOfLen(nl), r \in SidesOfLen(nr)} :
                       nr \in 0..(MaxHeadlines - nl)} :
                nl \in 0..MaxHeadlines}

\* h.headline
Text(h) == IF "headline" \in DOMAIN h THEN h.headline ELSE "undefined"

HasValidDate(h) == "publishedAt" \in DOMAIN h /\ h.publishedAt \in ValidDates

\* the descending comparator: reading publishedAt of null throws and the catch
\* returns 0, a date that does not parse gives NaN, which sort takes as 0
CompareAscending(a, b) ==
  IF ~HasValidDate(a) \/ ~HasValidDate(b) THEN 0
  ELSE getTime(a.publishedAt) - getTime(b.publishedAt)

Compare(a, b) ==
  IF ~HasValidDate(a) \/ ~HasValidDate(b) THEN 0
  ELSE getTime(b.publishedAt) - getTime(a.publishedAt)

\* the comparator orders the elements of s consistently
Consistent(s) ==
  \A i, j, k \in DOMAIN s :
    (Compare(s[i], s[j]) = 0 /\ Compare(s[j], s[k]) = 0) => Compare(s[i], s[k]) = 0

Insert(sorted, x) ==
  LET after == {i \in DOMAIN sorted : Compare(sorted[i], x) > 0}
      at == IF after = {} THEN Len(sorted) + 1 ELSE Min(after)
  IN  SubSeq(sorted, 1, at - 1) \o <<x>> \o SubSeq(sorted, at, Len(sorted))

RECURSIVE StableSort(_)
StableSort(s) ==
  IF s = <<>> THEN <<>>
  ELSE Insert(StableSort(SubSeq(s, 1, Len(s) - 1)), s[Len(s)])

RECURSIVE Orders(_)
Orders(s) ==
  IF s = <<>> THEN {<<>>}
  ELSE UNION {{<<s[i]>> \o p :
                 p \in Orders(SubSeq(s, 1, i - 1) \o SubSeq(s, i + 1, Len(s)))} :
              i \in DOMAIN s}

\* Array.prototype.sort with the comparator: stable when the comparator is
\* consistent, any order the engine likes when it is not
sort(s) == IF Consistent(s) THEN {StableSort(s)} ELSE Orders(s)

\* Array.prototype.slice(start, end)
slice(s, start, end) == SubSeq(s, start + 1, Min({end, Len(s)}))

\* new Set(latest.map(h => h.headline))
firstHeadlineSet(latest) == {Text(latest[i]) : i \in DOMAIN latest \cap {1}}

latestHeadlinesSet(latest) == {Text(latest[i]) : i \in DOMAIN latest}

RECURSIVE filter(_, _)
\* headlines.filter(h => !set.has(h.headline))
filter(s, set) ==
  IF s = <<>> THEN <<>>
  ELSE IF Text(Head(s)) \in set THEN filter(Tail(s), set)
       ELSE <<Head(s)>> \o filter(Tail(s), set)

HasNull(s) == \E i \in DOMAIN s : s[i] = NullItem

\* nothing to parse or to spread: the throw comes before anything is set
ThrowsEarly(resp) ==
  \/ resp.kind # "object"
  \/ resp.left.kind = "missing"
  \/ resp.right.kind = "missing"

\* the throw comes in latest.map or in one of the two filter calls
ThrowsLate(resp, latest) ==
  \/ HasNull(latest)
  \/ resp.left.kind = "string" \/ HasNull(resp.left.items)
  \/ resp.right.kind = "string" \/ HasNull(resp.right.items)

\* fetchHeadlines up to its await; the effect on mount calls it
fetchHeadlines ==
  /\ fetchStep = "mount"
  /\ headlinesLoading' = TRUE
  /\ headlinesError' = Null
  /\ fetchStep' = "pending"
  /\ UNCHANGED <<headlines, latestHeadlines, response>>
  /\ UNCHANGED <<appVars, speechSupported, speechVars, devVars, histVars, last, jsonVars,
                 restVars>>

\* fetchHeadlines from the service's answer on
FetchHeadlinesSettle ==
  /\ fetchStep = "pending"
  /\ \E resp \in Responses :
       /\ response' = resp
       /\ IF ThrowsEarly(resp)
          THEN /\ headlinesError' = HeadlinesFailedMsg
               /\ UNCHANGED <<headlines, latestHeadlines>>
          ELSE \E allHeadlines \in sort(resp.left.items \o resp.right.items) :
                 LET latest == slice(allHeadlines, 0, LatestCount)
                     set == latestHeadlinesSet(latest)
                 IN  /\ latestHeadlines' = [items |-> latest]
                     /\ IF ThrowsLate(resp, latest)
                        THEN /\ headlinesError' = HeadlinesFailedMsg
                             /\ UNCHANGED headlines
                        ELSE /\ \E remainingLeft \in sort(filter(resp.left.items, set)),
                                   remainingRight \in sort(filter(resp.right.items, set)) :
                                  headlines' = [leftHeadlines |-> remainingLeft,
                                                rightHeadlines |-> remainingRight]
                             /\ UNCHANGED headlinesError
  /\ headlinesLoading' = FALSE
  /\ fetchStep' = "done"
  /\ UNCHANGED <<appVars, speechSupported, speechVars, devVars, histVars, last, jsonVars,
                 restVars>>

\* ------------------------------------------- the analysis pipeline, step by step
\* a field the answer does not hold (undefined)
Absent == "absent"
\* a value that counts as true in a condition
Truthy(v) == v \notin {Absent, ""}

\* no article (undefined or null)
NoArticle == [none |-> TRUE]

Sources == {"Fox News", "CNN"}

\* new Date().toISOString()
Now == "now"

\* the articles a search answer can hold
SearchArticles ==
  {[title |-> t, source |-> s, publishedAt |-> d[1], publication_date |-> d[2]] :
     t \in {Absent, "T"}, s \in Sources,
     d \in {<<Absent, Absent>>, <<Absent, "2025-07-30">>, <<"2025-08-01", "2025-07-30">>}}

RECURSIVE ArticleSeqs(_)
ArticleSeqs(n) ==
  IF n = 0 THEN {<<>>}
  ELSE {Append(s, a) : s \in ArticleSeqs(n - 1), a \in SearchArticles}

\* what the search request can come to: the call rejected, a text safeParseJson
\* throws on, an object with the two keys (each an article or not there), or
\* an object with an articles list
SearchResponses ==
  {[kind |-> k, rightWingArticle |-> NoArticle, leftWingArticle |-> NoArticle,
    articles |-> <<>>] : k \in {"rejected", "unparsable"}}
    \cup {[kind |-> "keys", rightWingArticle |-> r, leftWingArticle |-> l,
           articles |-> <<>>] :
            r \in SearchArticles \cup {NoArticle}, l \in SearchArticles \cup {NoArticle}}
    \cup {[kind |-> "list", rightWingArticle |-> NoArticle, leftWingArticle |-> NoArticle,
           articles |-> as] : as \in UNION {ArticleSeqs(n) : n \in 0..MaxArticles}}

\* what the classification request can come to
ClassifyResponses ==
  {[kind |-> k, rightWingArticleSource |-> Absent] : k \in {"rejected", "unparsable"}}
    \cup {[kind |-> "object", rightWingArticleSource |-> s] : s \in Sources \cup {"Fox"}}

\* what the analysis request can come to; an object holds all the fields
\* finalResult reads, or lacks rightWingArticleAnalysis
AnalysisResponses ==
  LET Answer(k, c, score, right, left) ==
        [kind |-> k, complete |-> c, spectrumScore |-> score,
         rightWingArticleAnalysis |-> [summary |-> right],
         leftWingArticleAnalysis |-> [summary |-> left]]
      given == <<"s", ".">>
  IN  {Answer(k, FALSE, 0, <<>>, <<>>) : k \in {"rejected", "unparsable", "object"}}
        \cup {Answer("object", TRUE, 0, given, given),
              Answer("object", TRUE, 11, given, given),
              Answer("object", TRUE, 0, <<>>, given)}

\* console.warn("Article missing publication date:", article): how many times
Warns(article) ==
  IF article = NoArticle THEN 0
  ELSE IF Truthy(article.publishedAt) \/ Truthy(article.publication_date) THEN 0
  ELSE 1

\* a normalizeArticle that looks at publication_date first
normalizeArticleOtherFirst(article) ==
  IF article = NoArticle THEN NoArticle
  ELSE LET publishedAt == IF Truthy(article.publication_date) THEN article.publication_date
                          ELSE article.publishedAt
       IN  [article EXCEPT !.publishedAt = IF Truthy(publishedAt) THEN publishedAt ELSE Now]

normalizeArticle(article) ==
  IF article = NoArticle THEN NoArticle
  ELSE LET publishedAt == IF Truthy(article.publishedAt) THEN article.publishedAt
                          ELSE article.publication_date
       IN  [article EXCEPT !.publishedAt = IF Truthy(publishedAt) THEN publishedAt ELSE Now]

\* sides that take the first article as the right-leaning one whatever is named
AssignSidesFirstRight(articleA, articleB, rightSource) ==
  [right |-> articleA, left |-> articleB]

\* the sides of the two articles classified, given the source named right-leaning
AssignSides(articleA, articleB, rightSource) ==
  IF articleA.source = rightSource
  THEN [right |-> articleA, left |-> articleB]
  ELSE [right |-> articleB, left |-> articleA]

\* a test that lets articles without a title pass
ArticlesFoundUntitled(rightWingArticle, leftWingArticle) ==
  /\ rightWingArticle # NoArticle
  /\ leftWingArticle # NoArticle

\* the test before the analysis request
ArticlesFound(rightWingArticle, leftWingArticle) ==
  /\ rightWingArticle # NoArticle
  /\ leftWingArticle # NoArticle
  /\ Truthy(rightWingArticle.title)
  /\ Truthy(leftWingArticle.title)

IdleRun ==
  [pc |-> "idle", topic |-> Null, search |-> NoResponse, classified |-> FALSE,
   articleA |-> NoArticle, articleB |-> NoArticle, rightSource |-> Absent,
   rightWingArticle |-> NoArticle, leftWingArticle |-> NoArticle,
   rawRight |-> NoArticle, rawLeft |-> NoArticle,
   requests |-> <<>>, warnings |-> 0, stored |-> FALSE]

\* finalResult
FinalResult(topic, rightWingArticle, leftWingArticle, analysisData) ==
  LET data == ServiceResult(topic)
  IN  [topic |-> topic,
       spectrumScore |-> analysisData.spectrumScore,
       rightWingArticle |->
         [title |-> rightWingArticle.title, source |-> rightWingArticle.source,
          publishedAt |-> rightWingArticle.publishedAt,
          summary |-> analysisData.rightWingArticleAnalysis.summary,
          spinAnalysis |-> data.rightWingArticle.spinAnalysis],
       leftWingArticle |->
         [title |-> leftWingArticle.title, source |-> leftWingArticle.source,
          publishedAt |-> leftWingArticle.publishedAt,
          summary |-> analysisData.leftWingArticleAnalysis.summary,
          portrayalOfRight |-> data.leftWingArticle.portrayalOfRight],
       leftistTalkingPoints |-> data.leftistTalkingPoints,
       socialistTalkingPoints |-> data.socialistTalkingPoints]

\* a catch block that shows the message and goes on to the analysis request
RunThrowsAndGoesOn(r, msg) ==
  /\ run' = [r EXCEPT !.pc = "analysis", !.requests = Append(@, "analysis")]
  /\ error' = msg
  /\ UNCHANGED <<analysis, loading, calls>>

\* the catch and finally blocks, r the run as it stands at the throw
RunThrows(r, msg) ==
  /\ run' = [r EXCEPT !.pc = "idle"]
  /\ error' = msg
  /\ loading' = FALSE
  /\ calls' = calls \ {r.topic}
  /\ UNCHANGED analysis

\* from the sides to the analysis request, r the run as it stands
RunToAnalysis(r, right, left) ==
  LET r1 == [r EXCEPT !.rawRight = right, !.rawLeft = left,
                      !.rightWingArticle = normalizeArticle(right),
                      !.leftWingArticle = normalizeArticle(left),
                      !.warnings = @ + Warns(right) + Warns(left)]
  IN  IF ArticlesFound(r1.rightWingArticle, r1.leftWingArticle)
      THEN /\ run' = [r1 EXCEPT !.pc = "analysis", !.requests = Append(@, "analysis")]
           /\ UNCHANGED appVars
      ELSE RunThrows(r1, ArticlesNotFoundMsg)

\* getAnalysis(topic) up to the search request
RunStart(topic) ==
  /\ run.pc = "idle"
  /\ getAnalysis(topic)
  /\ run' = [IdleRun EXCEPT !.pc = "search", !.topic = topic, !.requests = <<"search">>]
  /\ UNCHANGED <<jsonVars, issued, voiceVars, auxVars, pureVars>>

\* from the search answer to the next request, or to the throw
RunSearchAnswer ==
  /\ run.pc = "search"
  /\ \E parsedResponse \in SearchResponses :
       LET r == [run EXCEPT !.search = parsedResponse]
       IN  IF parsedResponse.kind = "rejected" THEN RunThrows(r, TransportMsg)
           ELSE IF parsedResponse.kind = "unparsable" THEN RunThrows(r, InvalidFormatMsg)
           ELSE IF /\ parsedResponse.rightWingArticle # NoArticle
                   /\ parsedResponse.leftWingArticle # NoArticle
           THEN RunToAnalysis(r, parsedResponse.rightWingArticle,
                              parsedResponse.leftWingArticle)
           ELSE IF Len(parsedResponse.articles) >= 2
           THEN LET articlesToClassify == slice(parsedResponse.articles, 0, 2)
                IN  /\ run' = [r EXCEPT !.pc = "classify",
                                        !.articleA = articlesToClassify[1],
                                        !.articleB = articlesToClassify[2],
                                        !.requests = Append(@, "classification")]
                    /\ UNCHANGED appVars
           ELSE RunToAnalysis(r, NoArticle, NoArticle)
  /\ Did("searchAnswer")
  /\ UNCHANGED <<speechSupported, jsonVars, headlineVars, issued, voiceVars, auxVars, pureVars, speechVars,
                 devVars, histVars>>

\* from the classification answer to the analysis request, or to the throw
RunClassifyAnswer ==
  /\ run.pc = "classify"
  /\ \E classification \in ClassifyResponses :
       IF classification.kind = "rejected" THEN RunThrows(run, TransportMsg)
       ELSE IF classification.kind = "unparsable" THEN RunThrows(run, InvalidFormatMsg)
       ELSE LET rightSource == classification.rightWingArticleSource
                sides == AssignSides(run.articleA, run.articleB, rightSource)
            IN  RunToAnalysis([run EXCEPT !.classified = TRUE,
                                          !.rightSource = rightSource],
                              sides.right, sides.left)
  /\ Did("classifyAnswer")
  /\ UNCHANGED <<speechSupported, jsonVars, headlineVars, issued, voiceVars, auxVars, pureVars, speechVars,
                 devVars, histVars>>

\* from the analysis answer to the end
RunAnalysisAnswer ==
  /\ run.pc = "analysis"
  /\ \E analysisData \in AnalysisResponses :
       IF analysisData.kind = "rejected" THEN RunThrows(run, TransportMsg)
       ELSE IF analysisData.kind = "unparsable" THEN RunThrows(run, InvalidFormatMsg)
       ELSE IF ~analysisData.complete THEN RunThrows(run, TypeErrorMsg)
       ELSE /\ analysis' = FinalResult(run.topic, run.rightWingArticle, run.leftWingArticle,
                                        analysisData)
            /\ run' = [run EXCEPT !.pc = "idle", !.stored = TRUE]
            /\ loading' = FALSE
            /\ calls' = calls \ {run.topic}
            /\ UNCHANGED error
  /\ Did("analysisAnswer")
  /\ UNCHANGED <<speechSupported, jsonVars, headlineVars, issued, voiceVars, auxVars, pureVars, speechVars,
                 devVars, histVars>>

\* ------------------------------------------------ the view and the calls
\* what the calls and the view leave alone
ViewFrame == UNCHANGED <<jsonVars, run, voiceVars, pureVars>>

\* the user selects a headline: getAnalysis(topic) up to its first request
SelectHeadline(topic) ==
  /\ getAnalysis(topic)
  /\ issued' = topic
  /\ ViewFrame /\ UNCHANGED auxVars

\* the user returns to the headline list
BackToHeadlines ==
  /\ analysis' = NoAnalysis
  /\ error' = Null
  /\ \E r \in stopSpeech(synth, late) : Store(r)
  /\ Did("resetView")
  /\ issued' = Null
  /\ UNCHANGED <<loading, calls, speechSupported, headlineVars, timers, handed, clean>>
  /\ ViewFrame /\ UNCHANGED auxVars

\* a pending call comes to its end with a result
CallSucceeds(topic) ==
  /\ topic \in calls
  /\ calls' = calls \ {topic}
  /\ analysis' = ServiceResult(topic)
  /\ loading' = FALSE
  /\ Did("setAnalysis")
  /\ UNCHANGED <<error, speechSupported, headlineVars, speechVars, devVars, histVars, issued>>
  /\ ViewFrame /\ UNCHANGED auxVars

\* a pending call comes to its end with a failure
CallFails(topic) ==
  /\ topic \in calls
  /\ calls' = calls \ {topic}
  /\ \E m \in AnalysisFailures : error' = m
  /\ loading' = FALSE
  /\ Did("analysisFailed")
  /\ UNCHANGED <<analysis, speechSupported, headlineVars, speechVars, devVars, histVars, issued>>
  /\ ViewFrame /\ UNCHANGED auxVars

\* ------------------------------------------------ the queue as a function
\* the texts of a field of an AnalysisResult: up to n of these characters
RECURSIVE UnitTexts(_)
UnitTexts(n) ==
  IF n = 0 THEN {<<>>}
  ELSE LET shorter == UnitTexts(n - 1)
       IN  shorter \cup {Append(t, c) : t \in {x \in shorter : Len(x) = n - 1},
                                         c \in {"a", " ", "."}}

\* texts with delimiters in a row, and a talking point of two sentences
DelimiterRuns == {<<"a", ".", ".", ".">>, <<"a", "?", "!", " ", "b">>}
TwoSentences == <<"a", ".", " ", "b", ".">>

\* the AnalysisResults the queue is built from
AnalysisResults ==
  {[topic |-> "t1",
    rightWingArticle |-> [title |-> title, source |-> <<"Fox">>,
                          summary |-> summary, spinAnalysis |-> <<"b", "?">>],
    leftWingArticle |-> [title |-> <<"B">>, source |-> <<"CNN">>,
                         summary |-> <<>>, portrayalOfRight |-> <<" ">>],
    leftistTalkingPoints |-> <<>>,
    socialistTalkingPoints |-> points] :
     title \in {<<>>, <<" ">>, <<"A">>},
     summary \in UnitTexts(MaxUnitText) \cup DelimiterRuns,
     points \in {<<>>, <<TwoSentences>>} \cup {<<t>> : t \in UnitTexts(MaxUnitText)}
                       \cup {<<t, <<"c", "!">>>> : t \in UnitTexts(MaxUnitText)}}

QueueFrame ==
  UNCHANGED <<appVars, speechSupported, speechVars, devVars, histVars, last,
              jsonVars, headlineVars, run, issued, voiceVars, auxVars, arg>>

\* the queue is built from the AnalysisResult
BuildFirst ==
  /\ out = NoArg
  /\ out' = [built |-> 1, first |-> BuildQueue(arg), second |-> <<>>]
  /\ QueueFrame

\* the queue is built from it once more
BuildAgain ==
  /\ out # NoArg /\ out.built = 1
  /\ out' = [out EXCEPT !.built = 2, !.second = BuildQueue(arg)]
  /\ QueueFrame

\* ------------------------------------------------------------------ voices
\* the '' a voiceURI state starts with
NoURI == <<>>

\* a lang is <<language, region>>: 'en-US' is <<"en", "US">>
enUS == <<"en", "US">>
startsWith(lang, prefix) == lang[1] = prefix

premiumNames ==
  <<"Google US English", "Microsoft David - English (United States)", "Samantha", "Alex">>

\* the voices a device may list; a voiceURI names one voice
Voice(name, lang, localService) ==
  [name |-> name, lang |-> lang, localService |-> localService,
   voiceURI |-> <<name, lang, localService>>]

DeviceVoices ==
  {Voice("Google US English", enUS, FALSE),
   Voice("Samantha", enUS, TRUE),
   Voice("Samantha", <<"en", "GB">>, TRUE),
   Voice("Zira", enUS, TRUE),
   Voice("Aria", enUS, FALSE),
   Voice("Daniel", <<"en", "GB">>, FALSE),
   Voice("Amelie", <<"fr", "FR">>, TRUE)}

\* getVoices(): the lists of distinct voices, up to n long
RECURSIVE VoiceLists(_)
VoiceLists(n) ==
  IF n = 0 THEN {<<>>}
  ELSE LET shorter == VoiceLists(n - 1)
       IN  shorter \cup {Append(l, v) : l \in {x \in shorter : Len(x) = n - 1},
                                         v \in DeviceVoices}

AvailableVoices ==
  {l \in VoiceLists(MaxVoices) : \A i, j \in DOMAIN l : i # j => l[i] # l[j]}

\* Array.prototype.find: the first element that satisfies the test, or null;
\* passing is the set of the values that satisfy it
find(vcs, passing) ==
  IF \E i \in DOMAIN vcs : vcs[i] \in passing
  THEN vcs[Min({i \in DOMAIN vcs : vcs[i] \in passing})]
  ELSE NullValue

\* the premium names from the i-th on, tried in order
RECURSIVE PremiumFrom(_, _)
PremiumFrom(vcs, i) ==
  IF i > Len(premiumNames) THEN NullValue
  ELSE LET Named == {v \in Range(vcs) : v.name = premiumNames[i] /\ v.lang = enUS}
           voice == find(vcs, Named)
       IN  IF voice # NullValue THEN voice ELSE PremiumFrom(vcs, i + 1)

getBestVoice(vcs) ==
  LET Local == {v \in Range(vcs) : v.lang = enUS /\ v.localService}
      AnyUS == {v \in Range(vcs) : v.lang = enUS}
      English == {v \in Range(vcs) : startsWith(v.lang, "en")}
  IN  IF vcs = <<>> THEN NullValue
      ELSE IF PremiumFrom(vcs, 1) # NullValue THEN PremiumFrom(vcs, 1)
      ELSE IF find(vcs, Local) # NullValue THEN find(vcs, Local)
      ELSE IF find(vcs, AnyUS) # NullValue THEN find(vcs, AnyUS)
      ELSE find(vcs, English)

\* what the voice handlers leave alone
VoicesFrame ==
  UNCHANGED <<appVars, speechSupported, speechVars, devVars, histVars, last,
              jsonVars, headlineVars, run, issued, auxVars, pureVars>>

\* loadVoices with getVoices() returning availableVoices: the voices and the
\* default it sets, and whether it takes the handler off
loadVoices(availableVoices) ==
  IF speechSupported /\ Len(availableVoices) > 0
  THEN LET bestVoice == getBestVoice(availableVoices)
       IN  /\ voices' = availableVoices
           /\ selectedVoiceURI' = IF bestVoice # NullValue THEN bestVoice.voiceURI
                                  ELSE availableVoices[1].voiceURI
  ELSE UNCHANGED <<voices, selectedVoiceURI>>

\* the voice part of the mount effect: loadVoices(), then the handler is set
MountVoices(availableVoices) ==
  /\ onvoiceschanged = "unset"
  /\ loadVoices(availableVoices)
  /\ onvoiceschanged' = IF speechSupported THEN "loadVoices" ELSE "null"
  /\ UNCHANGED <<userVoice, preferredVoice>>
  /\ VoicesFrame

\* the device announces its voice list while the handler is set
VoicesChanged(availableVoices) ==
  /\ onvoiceschanged = "loadVoices"
  /\ loadVoices(availableVoices)
  /\ onvoiceschanged' = IF Len(availableVoices) > 0 THEN "null" ELSE "loadVoices"
  /\ UNCHANGED <<userVoice, preferredVoice>>
  /\ VoicesFrame

\* the user picks a voice in the voice-select control
SelectVoice(uri) ==
  /\ Len(voices) > 0
  /\ uri \in {voices[i].voiceURI : i \in DOMAIN voices}
  /\ selectedVoiceURI' = uri
  /\ userVoice' = uri
  /\ UNCHANGED <<voices, onvoiceschanged, preferredVoice>>
  /\ VoicesFrame

\* the voice handleGlobalSpeech gives the utterances it builds
BuildUtterances ==
  LET Selected == {v \in Range(voices) : v.voiceURI = selectedVoiceURI}
  IN  /\ onvoiceschanged # "unset"
      /\ preferredVoice' = find(voices, Selected)
      /\ UNCHANGED <<voices, selectedVoiceURI, onvoiceschanged, userVoice>>
      /\ VoicesFrame

\* ------------------------------------------------ the credential
\* a mount effect that fetches the headlines with or without the key
MountAppFetchesAnyway(key, availableVoices) ==
  /\ ai = "unset"
  /\ ai' = IF key THEN "client" ELSE "none"
  /\ sent' = sent \cup {"headlines"}
  /\ headlinesLoading' = TRUE
  /\ headlinesError' = Null
  /\ fetchStep' = "pending"
  /\ loadVoices(availableVoices)
  /\ onvoiceschanged' = IF speechSupported THEN "loadVoices" ELSE "null"
  /\ Did("mount")
  /\ UNCHANGED <<analysis, loading, error, calls, speechSupported, speechVars, devVars,
                 histVars, jsonVars, headlines, latestHeadlines, response, run, issued,
                 userVoice, preferredVoice, tickerVars, pureVars>>

\* the mount effect, key whether API_KEY is there: with it the client is made,
\* fetchHeadlines() issues its request and the voices are loaded; without it
\* the two messages are set
MountApp(key, availableVoices) ==
  /\ ai = "unset"
  /\ IF key
     THEN /\ ai' = "client"
          /\ sent' = sent \cup {"headlines"}
          /\ headlinesLoading' = TRUE
          /\ headlinesError' = Null
          /\ fetchStep' = "pending"
          /\ loadVoices(availableVoices)
          /\ onvoiceschanged' = IF speechSupported THEN "loadVoices" ELSE "null"
          /\ UNCHANGED error
     ELSE /\ ai' = "none"
          /\ headlinesError' = ApiKeyHeadlinesMsg
          /\ error' = ApiKeyMsg
          /\ headlinesLoading' = FALSE
          /\ UNCHANGED <<sent, fetchStep, voices, selectedVoiceURI, onvoiceschanged>>
  /\ Did("mount")
  /\ UNCHANGED <<analysis, loading, calls, speechSupported, speechVars, devVars,
                 histVars, jsonVars, headlines, latestHeadlines, response, run, issued,
                 userVoice, preferredVoice, tickerVars, pureVars>>

\* getAnalysis(topic) up to its first await: with the client the search request
\* is issued; without it the call throws before any request, and its catch and
\* finally blocks run at once
AnalyzeCall(topic) ==
  /\ ai # "unset"
  /\ IF ai = "client"
     THEN /\ getAnalysis(topic)
          /\ sent' = sent \cup {"search"}
     ELSE /\ loading' = FALSE
          /\ error' = NotInitializedMsg
          /\ analysis' = NoAnalysis
          /\ \E r \in stopSpeech(synth, late) : Store(r)
          /\ Did("getAnalysis")
          /\ UNCHANGED <<calls, sent, speechSupported, timers, handed, clean, headlineVars>>
  /\ issued' = topic
  /\ UNCHANGED <<ai, tickerVars>>
  /\ ViewFrame

\* the back button, which is there while a result is shown
BackButton ==
  /\ analysis # NoAnalysis
  /\ BackToHeadlines

\* ------------------------------------------------ the ticker
\* the items of a ticker answer: with and without a headline, and null
TickerItems ==
  {[headline |-> h, source |-> "src"] : h \in {"h1", "h2", Absent}} \cup {NullItem}

RECURSIVE TickerLists(_)
TickerLists(n) ==
  IF n = 0 THEN {<<>>}
  ELSE LET shorter == TickerLists(n - 1)
       IN  shorter \cup {Append(l, i) : l \in {x \in shorter : Len(x) = n - 1},
                                         i \in TickerItems}

\* what the service answers to fetchTickerHeadlines: a rejection, a text that
\* is no JSON, the JSON null, an object without headlines, with a string for
\* them, or with a list
TickerResponses ==
  {[kind |-> k, headlines |-> <<>>] :
      k \in {"rejected", "unparsable", "null", "missing", "string"}}
    \cup {[kind |-> "list", headlines |-> l] : l \in TickerLists(MaxTicker)}

\* { ...h, emoji, publishedAt }: a null h spreads to nothing
WithDefaults(h) ==
  [headline |-> IF h = NullItem THEN Absent ELSE h.headline,
   source |-> IF h = NullItem THEN Absent ELSE h.source,
   emoji |-> "bolt",
   publishedAt |-> Now]

\* parsed.headlines.map(h => ...)
RECURSIVE map(_)
map(hs) ==
  IF hs = <<>> THEN <<>> ELSE <<WithDefaults(Head(hs))>> \o map(Tail(hs))

\* the await, JSON.parse or parsed.headlines.map throws
TickerThrows(resp) == resp.kind # "list"

\* a catch block that empties the ticker and reports to the user
TickerCatchReports(resp) ==
  /\ tickerHeadlines' = <<>>
  /\ error' = HeadlinesFailedMsg
  /\ tickerLast' = [resp |-> resp, logged |-> TRUE]
  /\ UNCHANGED <<analysis, loading, calls, headlineVars>>

\* the catch block of fetchTickerHeadlines: console.error, nothing else
TickerCatch(resp) ==
  /\ tickerLast' = [resp |-> resp, logged |-> TRUE]
  /\ UNCHANGED <<tickerHeadlines, appVars, headlineVars>>

\* the mount effect of the ticker variant: as MountApp, and with the key the
\* first fetchTickerHeadlines() and the refresh interval
MountTickerApp(key, availableVoices) ==
  /\ ai = "unset"
  /\ IF key
     THEN /\ ai' = "client"
          /\ sent' = sent \cup {"headlines", "ticker"}
          /\ headlinesLoading' = TRUE
          /\ headlinesError' = Null
          /\ fetchStep' = "pending"
          /\ tickerPending' = 1
          /\ loadVoices(availableVoices)
          /\ onvoiceschanged' = IF speechSupported THEN "loadVoices" ELSE "null"
          /\ UNCHANGED error
     ELSE /\ ai' = "none"
          /\ headlinesError' = ApiKeyHeadlinesMsg
          /\ error' = ApiKeyMsg
          /\ headlinesLoading' = FALSE
          /\ UNCHANGED <<sent, fetchStep, tickerPending, voices, selectedVoiceURI,
                         onvoiceschanged>>
  /\ Did("mount")
  /\ UNCHANGED <<analysis, loading, calls, speechSupported, speechVars, devVars,
                 histVars, jsonVars, headlines, latestHeadlines, response, run, issued,
                 userVoice, preferredVoice, tickerHeadlines, tickerLast, pureVars>>

TickerFrame ==
  UNCHANGED <<speechSupported, speechVars, devVars, histVars, last, jsonVars, run,
              issued, voiceVars, ai, pureVars>>

\* the interval fires: fetchTickerHeadlines() up to its await
fetchTickerHeadlines ==
  /\ ai = "client"
  /\ tickerPending < MaxTickerPending
  /\ tickerPending' = tickerPending + 1
  /\ sent' = sent \cup {"ticker"}
  /\ UNCHANGED <<tickerHeadlines, tickerLast, appVars, headlineVars>>
  /\ TickerFrame

\* fetchTickerHeadlines from the service's answer on
TickerSettle(resp) ==
  /\ tickerPending > 0
  /\ tickerPending' = tickerPending - 1
  /\ IF TickerThrows(resp)
     THEN TickerCatch(resp)
     ELSE /\ tickerHeadlines' = map(resp.headlines)
          /\ tickerLast' = [resp |-> resp, logged |-> FALSE]
          /\ UNCHANGED <<appVars, headlineVars>>
  /\ UNCHANGED sent
  /\ TickerFrame

\* ------------------------------------------------------------- specification
InitState ==
  /\ analysis = NoAnalysis
  /\ loading = FALSE
  /\ error = Null
  /\ calls = {}
  /\ speechSupported \in BOOLEAN
  /\ globalSpeechState = "stopped"
  /\ currentlySpeakingCard = NoCard
  /\ speechQueueRef = EmptyQueue
  /\ timers = [cur |-> 0, old |-> 0]
  /\ synth = IdleSynth
  /\ late = [cur |-> 0, old |-> 0]
  /\ handed = NoneHanded
  /\ clean = TRUE
  /\ last = [op |-> "init", pre |-> "stopped"]
  /\ step = "idle"
  /\ responseText = <<>>
  /\ parsed = NotParsed
  /\ headlines = NullValue
  /\ latestHeadlines = NullValue
  /\ headlinesLoading = TRUE
  /\ headlinesError = Null
  /\ fetchStep = "mount"
  /\ response = NoResponse
  /\ run = IdleRun
  /\ issued = Null
  /\ ai = "unset"
  /\ sent = {}
  /\ tickerHeadlines = <<>>
  /\ tickerPending = 0
  /\ tickerLast = [resp |-> NoResponse, logged |-> FALSE]
  /\ voices = <<>>
  /\ selectedVoiceURI = NoURI
  /\ onvoiceschanged = "unset"
  /\ userVoice = NoURI
  /\ preferredVoice = NullValue
  /\ out = NoArg

Init == InitState /\ arg = NoArg

Next ==
  \/ \E t \in Topics : GetAnalysis(t)
  \/ \E t \in Topics : SettleAnalysisOk(t)
  \/ \E t \in Topics : SettleAnalysisFail(t)
  \/ resetView
  \/ handleGlobalSpeech
  \/ \E k \in {"cur", "old"} : speakNext(k)
  \/ DeviceStart
  \/ DeviceEnd
  \/ DeviceError
  \/ \E k \in {"cur", "old"} : LateEnd(k)
  \/ \E k \in {"cur", "old"} : LateError(k)

Spec == Init /\ [][Next]_vars

\* the analysis pipeline over response texts
NextJson ==
  \/ \E t \in Topics : GetAnalysisText(t)
  \/ \E t \in Topics : SettleSearchText(t)
  \/ \E t \in Topics : AnalysisAnswerOk(t)
  \/ \E t \in Topics : AnalysisAnswerFail(t)

SpecJson == Init /\ [][NextJson]_vars

\* the headline fetch of the mount effect
NextHeadlines ==
  \/ fetchHeadlines
  \/ FetchHeadlinesSettle

SpecHeadlines == Init /\ [][NextHeadlines]_vars

\* one getAnalysis call followed through its requests
NextPipeline ==
  \/ \E t \in Topics : RunStart(t)
  \/ RunSearchAnswer
  \/ RunClassifyAnswer
  \/ RunAnalysisAnswer

SpecPipeline == Init /\ [][NextPipeline]_vars

\* the ticker variant: the mount effect, the refresh interval and the answers
NextTicker ==
  \/ \E key \in BOOLEAN, l \in {x \in AvailableVoices : Len(x) <= 1} : MountTickerApp(key, l)
  \/ fetchTickerHeadlines
  \/ \E resp \in TickerResponses : TickerSettle(resp)

SpecTicker == Init /\ [][NextTicker]_vars

\* the mount effect with and without the credential, and the calls after it
NextKey ==
  \/ \E key \in BOOLEAN, l \in {x \in AvailableVoices : Len(x) <= 1} : MountApp(key, l)
  \/ \E topic \in Topics : AnalyzeCall(topic)
  \/ \E topic \in Topics : CallSucceeds(topic)
  \/ \E topic \in Topics : CallFails(topic)
  \/ BackButton

SpecKey == Init /\ [][NextKey]_vars

\* the queue built from a given AnalysisResult, and built again
NextQueue ==
  \/ BuildFirst
  \/ BuildAgain

InitQueue == InitState /\ arg \in AnalysisResults

SpecQueue == InitQueue /\ [][NextQueue]_vars

\* the calls and the view: headlines selected, the return to the list, and the
\* calls coming to their end in any order
NextView ==
  \/ \E topic \in Topics : SelectHeadline(topic)
  \/ BackToHeadlines
  \/ \E topic \in Topics : CallSucceeds(topic)
  \/ \E topic \in Topics : CallFails(topic)

SpecView == Init /\ [][NextView]_vars

\* the voices: the mount effect, the device's voice-list event, the user's
\* pick, and the voice given to the utterances
NextVoices ==
  \/ \E l \in AvailableVoices : MountVoices(l)
  \/ \E l \in AvailableVoices : VoicesChanged(l)
  \/ \E uri \in {v.voiceURI : v \in DeviceVoices} : SelectVoice(uri)
  \/ BuildUtterances

SpecVoices == Init /\ [][NextVoices]_vars

\* ------------------------------------------------------------------- claims
Cleared ==
  /\ globalSpeechState = "stopped"
  /\ speechQueueRef = EmptyQueue
  /\ currentlySpeakingCard = NoCard

\* handlers that end in stopSpeech()
StopOps == {"resetView", "getAnalysis", "onerror", "lateError", "allFinished"}

\* a timer or a device callback left over from a session that has been superseded
StaleStep == speakNext("old") \/ LateEnd("old") \/ LateError("old")

\* C1: once a session has been stopped and a new one started, no timer and no
\* device callback of the earlier session changes the new session's speech
\* state, cursor or active section, or hands a unit to the device.
C1_NoStaleCallback ==
  [][(globalSpeechState # "stopped" /\ StaleStep)
       => UNCHANGED <<globalSpeechState, speechQueueRef, currentlySpeakingCard, synth>>]_vars

\* C2: every handler that runs stopSpeech() leaves the session stopped, with an
\* empty queue, cursor 0 and no active section, whatever the state before; and
\* a stop that follows a stop at once changes nothing of the session or the
\* device (a stop the user asks for leaves the pending timers and device
\* events alone too; a timer or device event that stops uses itself up).
C2_StopClearsSession ==
  [][last'.op \in StopOps
       => /\ Cleared'
          /\ (last.op \in StopOps
                => /\ UNCHANGED <<speechVars, synth>>
                   /\ (last'.op \in {"resetView", "getAnalysis"}
                         => UNCHANGED <<timers, late>>))]_vars

C2_Witness ==
  /\ last.op = "resetView"
  /\ last.pre = "paused"
  /\ Cleared

\* the speech state moves along the allowed transitions only, each by its
\* cause, and the control while playing or paused leaves queue and cursor alone
AllowedTransition ==
  LET s == globalSpeechState
      t == globalSpeechState'
      op == last'.op
  IN  /\ (s = "stopped" /\ t # "stopped")
           => (t = "playing" /\ op = "handleGlobalSpeech" /\ analysis # NoAnalysis)
      /\ (s = "playing" /\ t = "paused") => op = "handleGlobalSpeech"
      /\ (s = "paused" /\ t = "playing") => op = "handleGlobalSpeech"
      /\ (s # "stopped" /\ t = "stopped") => op \in StopOps
      /\ (handleGlobalSpeech /\ s # "stopped") => UNCHANGED speechQueueRef

\* C3: the speech state moves only stopped -> playing (the control, with an
\* analysis stored), playing -> paused and paused -> playing (the control),
\* playing or paused -> stopped (a stop, the queue exhausted, a device error);
\* while playing or paused the control never touches the queue or the cursor;
\* without an analysis the control leaves the analysis, the session, the
\* device and the timers alone, and it changes the error message only where
\* the browser has no speech synthesis, to say so.
C3_Transitions ==
  [][/\ AllowedTransition
     /\ (handleGlobalSpeech /\ analysis = NoAnalysis)
          => /\ UNCHANGED <<analysis, loading, calls, speechVars, devVars>>
             /\ IF speechSupported THEN UNCHANGED error
                ELSE error' = UnsupportedMsg]_vars

C3_Witness ==
  /\ ~speechSupported
  /\ last.op = "handleGlobalSpeech"
  /\ analysis = NoAnalysis
  /\ error = UnsupportedMsg
  /\ Cleared

\* C3 as stated: the same, the control without an analysis changing nothing.
C3_AsStated ==
  [][/\ AllowedTransition
     /\ (handleGlobalSpeech /\ analysis = NoAnalysis)
          => UNCHANGED <<appVars, speechVars, devVars>>]_vars

\* C4: in a session without pause, stop or device error every unit of the queue
\* is handed to the device once and in queue order (the safety half of the claim).
C4_EachUnitOnceInOrder ==
  (clean /\ globalSpeechState = "playing") => handed.inOrder

\* C5: a device error leaves the session stopped with an empty queue and no
\* active section, the narration error is shown, nothing is left with the
\* device, and units are handed to the device only while a session is live, so
\* none of the aborted session follows.
C5_ErrorAbortsSession ==
  /\ [](last.op \in {"onerror", "lateError"}
          => Cleared /\ error = SpeechFailedMsg /\ synth.queue = <<>>)
  /\ [][Len(synth'.queue) > Len(synth.queue)
          => globalSpeechState # "stopped" /\ globalSpeechState' # "stopped"]_vars

C5_Witness ==
  /\ last.op = "onerror"
  /\ last.pre = "paused"
  /\ Cleared
  /\ error = SpeechFailedMsg
  /\ timers.cur > 0

\* C6: at most one unit is with the device at any time.
C6_OneOutstanding == Len(synth.queue) <= 1

\* C18: resetView and getAnalysis each stop the narration: right after them the
\* speech state is stopped, the queue is empty, no section is active and the
\* device holds no unit; while the state is stopped the queue stays empty, and a
\* unit is handed to the device only in a session that is not stopped, and is
\* the unit at the cursor of the queue of that session: no unit of the session
\* that was stopped reaches the device afterwards.
C18_UserStopEndsSession ==
  /\ [](last.op \in {"resetView", "getAnalysis"}
          => Cleared /\ synth.queue = <<>>)
  /\ [](globalSpeechState = "stopped" => speechQueueRef.utterances = <<>>)
  /\ [][Len(synth'.queue) > Len(synth.queue)
          => /\ globalSpeechState # "stopped"
             /\ speechQueueRef.currentIndex < Len(speechQueueRef.utterances)
             /\ synth'.queue[Len(synth'.queue)].cardId
                  = speechQueueRef.utterances[speechQueueRef.currentIndex + 1].cardId]_vars

C18_Witness ==
  /\ last.op = "getAnalysis"
  /\ last.pre = "playing"
  /\ Cleared
  /\ synth.queue = <<>>
  /\ late.cur > 0
  /\ timers.cur > 0

\* ------------------------------------------------------ claims, JSON extraction
Opens(t) == {i \in DOMAIN t : t[i] = "{"}
Closes(t) == {i \in DOMAIN t : t[i] = "}"}

\* the parse of the stretch from the first "{" to the last "}" of t
Extract(t) ==
  IF Opens(t) # {} /\ Closes(t) # {} /\ Min(Opens(t)) < Max(Closes(t))
  THEN JSONparse(SubSeq(t, Min(Opens(t)), Max(Closes(t))))
  ELSE NotParsed

\* C7: safeParseJson gives the parse of the stretch from the first "{" to the
\* last "}" of the response text when that stretch is valid JSON, whatever
\* stands before and after it; otherwise it fails, the error shown is the
\* invalid-format message and no analysis is stored.
C7_JsonExtraction ==
  last.op = "searchAnswer"
    => /\ parsed = Extract(responseText)
       /\ ~parsed.ok => (error = InvalidFormatMsg /\ analysis = NoAnalysis
                          /\ ~loading /\ step = "idle")

C7_Witness ==
  /\ last.op = "searchAnswer"
  /\ parsed.ok
  /\ Len(responseText) = 5
  /\ responseText[1] = "x"
  /\ responseText[5] = "x"

\* ----------------------------------------------------------- claims, headlines
Succeeded == fetchStep = "done" /\ headlinesError = Null

\* the headlines of the response, both sides
Pool == response.left.items \o response.right.items

Count(s, h) == Cardinality({i \in DOMAIN s : s[i] = h})

SortedDesc(s) ==
  \A i, j \in DOMAIN s :
    i < j => getTime(s[i].publishedAt) >= getTime(s[j].publishedAt)

\* C8: after a fetch that succeeded no headline text of the latest list is in
\* the left or the right list.
C8_LatestNotInSideLists ==
  Succeeded
    => \A i \in DOMAIN latestHeadlines.items :
         /\ \A j \in DOMAIN headlines.leftHeadlines :
              headlines.leftHeadlines[j].headline # latestHeadlines.items[i].headline
         /\ \A j \in DOMAIN headlines.rightHeadlines :
              headlines.rightHeadlines[j].headline # latestHeadlines.items[i].headline

C8_Witness ==
  /\ Succeeded
  /\ \E i \in DOMAIN response.left.items, j \in DOMAIN response.right.items :
       /\ response.left.items[i].headline = response.right.items[j].headline
       /\ \E k \in DOMAIN latestHeadlines.items :
            latestHeadlines.items[k].headline = response.left.items[i].headline
  /\ Len(latestHeadlines.items) = 2
  /\ headlines.leftHeadlines # <<>>

C10_FailedFetchPublishesNothing ==
  fetchStep = "done"
    => /\ ~headlinesLoading
       /\ (headlinesError # Null) # (headlines # NullValue)
       /\ headlinesError # Null
            => (latestHeadlines = NullValue /\ headlines = NullValue)

\* ------------------------------------------------ claims, the analysis pipeline
\* the call followed has come to its end
RunEnded == run.pc = "idle" /\ run.topic # Null

\* C11: with an articles list [A, B, ...] classified, A and B are the first two
\* entries; when the answer names A's source A is the right-leaning article and
\* B the left-leaning one, when it names B's source and A's source is another
\* B is the right-leaning article and A the left-leaning one.
C11_ClassifiedSides ==
  run.classified
    => /\ run.articleA = run.search.articles[1]
       /\ run.articleB = run.search.articles[2]
       /\ run.rightSource = run.articleA.source
            => (run.rawRight = run.articleA /\ run.rawLeft = run.articleB)
       /\ (run.rightSource = run.articleB.source /\ run.articleA.source # run.rightSource)
            => (run.rawRight = run.articleB /\ run.rawLeft = run.articleA)
       /\ run.rightWingArticle = normalizeArticle(run.rawRight)
       /\ run.leftWingArticle = normalizeArticle(run.rawLeft)

C11_Witness ==
  /\ run.classified
  /\ run.stored
  /\ Len(run.search.articles) = 3
  /\ run.search.articles[3] # run.articleA
  /\ run.search.articles[3] # run.articleB
  /\ run.rightSource = run.articleB.source
  /\ run.articleA.source # run.rightSource
  /\ analysis.rightWingArticle.source = run.articleB.source

\* C12: in a run that classified and stored a result, the source of the
\* article stored as right-leaning is the source the classification named.
C12_RightSourceMatches ==
  (run.classified /\ run.stored) => analysis.rightWingArticle.source = run.rightSource

\* C13: normalizeArticle keeps a publishedAt that is there, else takes
\* publication_date when that is there, else the current time; the warning is
\* logged once for each article that has neither and for no other; every
\* article of a stored result has a publishedAt that is not empty.
NormalizedFrom(raw, norm) ==
  raw # NoArticle
    => /\ norm.title = raw.title /\ norm.source = raw.source
       /\ norm.publication_date = raw.publication_date
       /\ norm.publishedAt =
            (IF Truthy(raw.publishedAt) THEN raw.publishedAt
             ELSE IF Truthy(raw.publication_date) THEN raw.publication_date
             ELSE Now)

Undated(raw) ==
  raw # NoArticle /\ ~Truthy(raw.publishedAt) /\ ~Truthy(raw.publication_date)

C13_Normalized ==
  /\ NormalizedFrom(run.rawRight, run.rightWingArticle)
  /\ NormalizedFrom(run.rawLeft, run.leftWingArticle)
  /\ run.warnings = Cardinality({side \in {"right", "left"} :
                       Undated(IF side = "right" THEN run.rawRight ELSE run.rawLeft)})
  /\ run.stored
       => /\ Truthy(analysis.rightWingArticle.publishedAt)
          /\ Truthy(analysis.leftWingArticle.publishedAt)

C13_Witness ==
  /\ run.stored
  /\ run.warnings = 1
  /\ Truthy(run.rawRight.publishedAt)
  /\ run.rawRight.publication_date # run.rawRight.publishedAt
  /\ analysis.rightWingArticle.publishedAt = run.rawRight.publishedAt
  /\ analysis.leftWingArticle.publishedAt = Now

\* the search answer gives no right article, no left article, or an article
\* without a title: one of the two keys is not there, the list is shorter than
\* two, or one of the two articles taken has no title
NotFound(resp) ==
  \/ /\ resp.kind = "keys"
     /\ \/ resp.rightWingArticle = NoArticle
        \/ resp.leftWingArticle = NoArticle
        \/ ~Truthy(resp.rightWingArticle.title)
        \/ ~Truthy(resp.leftWingArticle.title)
  \/ /\ resp.kind = "list"
     /\ \/ Len(resp.articles) < 2
        \/ ~Truthy(resp.articles[1].title)
        \/ ~Truthy(resp.articles[2].title)

\* the classification request was issued and did not give an answer to read
ClassificationFailed == "classification" \in Range(run.requests) /\ ~run.classified

C15_SequentialRequests ==
  /\ [](/\ run.requests \in {<<>>, <<"search">>, <<"search", "classification">>,
                            <<"search", "analysis">>,
                            <<"search", "classification", "analysis">>}
        /\ "classification" \in Range(run.requests)
             <=> (run.search.kind = "list" /\ Len(run.search.articles) >= 2)
        /\ (RunEnded /\ ~run.stored) => error # Null)
  /\ [][run'.requests # run.requests
          => \/ run.pc = "idle" /\ run'.requests = <<"search">>
             \/ /\ run.pc # "idle" /\ run'.pc # "idle"
                /\ error' = Null
                /\ Len(run'.requests) = Len(run.requests) + 1
                /\ SubSeq(run'.requests, 1, Len(run.requests)) = run.requests]_vars
  /\ [][(run.pc # "idle" /\ error' # Null)
          => (run'.pc = "idle" /\ run'.requests = run.requests)]_vars

C15_Witness ==
  /\ RunEnded
  /\ run.requests = <<"search", "classification">>
  /\ ~run.classified
  /\ error = InvalidFormatMsg

\* C16: every failure of a call is shown as one of the fixed messages
\* (configuration missing, malformed response, articles not found).
ClassifiedMessages ==
  {NotInitializedMsg, ApiKeyMsg, InvalidFormatMsg, ArticlesNotFoundMsg}

C16_OnlyClassifiedMessages ==
  (RunEnded /\ error # Null) => error \in ClassifiedMessages

\* ------------------------------------------------------------ claims, voices
\* the place of a voice in the chain: the premium names in their order, then
\* en-US with localService, then en-US, then a locale starting with 'en'
Rank(v) ==
  IF v.lang = enUS /\ \E i \in DOMAIN premiumNames : premiumNames[i] = v.name
  THEN CHOOSE i \in DOMAIN premiumNames : premiumNames[i] = v.name
  ELSE IF v.lang = enUS /\ v.localService THEN Len(premiumNames) + 1
  ELSE IF v.lang = enUS THEN Len(premiumNames) + 2
  ELSE IF v.lang[1] = "en" THEN Len(premiumNames) + 3
  ELSE Len(premiumNames) + 4

InChain(v) == Rank(v) <= Len(premiumNames) + 3

\* v is the voice of the list the chain comes to first
FirstInChain(vcs, v) ==
  \E i \in DOMAIN vcs :
    /\ vcs[i] = v
    /\ InChain(v)
    /\ \A j \in DOMAIN vcs :
         \/ Rank(vcs[j]) > Rank(v)
         \/ Rank(vcs[j]) = Rank(v) /\ j >= i

\* the default: while the user has picked no voice, the voice selected is the
\* first of the chain, a later tier only when no earlier one has a match
C17_DefaultChain ==
  (userVoice = NoURI /\ voices # <<>> /\ \E i \in DOMAIN voices : InChain(voices[i]))
    => \E i \in DOMAIN voices :
         /\ voices[i].voiceURI = selectedVoiceURI
         /\ FirstInChain(voices, voices[i])

\* C17: narration uses the voice the user picked when there is one; otherwise
\* the default, the first voice found by trying a premium-named en-US voice
\* (the names in their listed order), an en-US voice with localService, an
\* en-US voice, a voice whose locale starts with 'en', a later tier only when
\* every earlier one has no match.
C17_VoiceFallbackChain ==
  /\ []C17_DefaultChain
  /\ [][BuildUtterances
          => /\ (userVoice # NoURI /\ \E i \in DOMAIN voices : voices[i].voiceURI = userVoice)
                  => preferredVoice'.voiceURI = userVoice
             /\ (userVoice = NoURI /\ \E i \in DOMAIN voices : InChain(voices[i]))
                  => FirstInChain(voices, preferredVoice')]_vars

\* ------------------------------------------------------ claims, the view
\* C19: the result of a call still pending when the user returns to the
\* headline list, or has since selected another headline, is dropped: the
\* analysis stored is always that of the call issued last, with no return to
\* the list since.
C19_StaleResultDropped ==
  analysis # NoAnalysis => analysis.topic = issued

\* ------------------------------------------------------ claims, the queue
Blank(text) == \A i \in DOMAIN text : text[i] = " "

C21_NoCredentialNoRequest ==
  ai = "none"
    => /\ sent = {}
       /\ calls = {}
       /\ fetchStep = "mount"
       /\ error \in {ApiKeyMsg, NotInitializedMsg}
       /\ headlinesError = ApiKeyHeadlinesMsg
       /\ headlinesLoading = FALSE
       /\ loading = FALSE
       /\ analysis = NoAnalysis

C21_Witness ==
  /\ ai = "none"
  /\ last.op = "getAnalysis"
  /\ error = NotInitializedMsg
  /\ headlinesError = ApiKeyHeadlinesMsg
  /\ sent = {}

\* ------------------------------------------------------ claims, the ticker
\* the refresh got no answer, a body that is no JSON, or a body without a list
\* of headlines
RefreshFailed(resp) ==
  \/ resp.kind \in {"rejected", "unparsable"}
  \/ resp.kind \in {"null", "missing", "string"}

C23_ScoreAndSummaries ==
  run.stored
    => /\ analysis.spectrumScore \in -10..10
       /\ analysis.rightWingArticle.summary # <<>>
       /\ analysis.leftWingArticle.summary # <<>>

\* ------------------------------------------------------ claims, the fragments
\* the units of a built queue after the unit `from` and before the unit `to`
\* (to the end of the queue when `to` is not in it)
UnitsBetween(queue, from, to) ==
  LET i == CHOOSE k \in DOMAIN queue : queue[k] = from
      after == {k \in DOMAIN queue : k > i /\ queue[k] = to}
  IN  SubSeq(queue, i + 1, IF after = {} THEN Len(queue) ELSE Min(after) - 1)

RECURSIVE ConcatTexts(_)
ConcatTexts(units) ==
  IF units = <<>> THEN <<>> ELSE Head(units).text \o ConcatTexts(Tail(units))

NoSpaces(text) == SelectSeq(text, LAMBDA c : c # " ")

\* the units the right summary has put into the queue
SummaryUnits(queue) ==
  UnitsBetween(queue,
               [cardId |-> "right-wing", text |-> <<"Summary:">>],
               [cardId |-> "right-wing",
                text |-> <<"Narrative", " ", "and", " ", "Spin", " ", "Analysis:">>])

\* C24: the sentence splitting keeps every delimiter and loses no content: the
\* fragments of a text, concatenated in order, are the text but for whitespace
\* removed at fragment boundaries, also when delimiters follow one another.
C24_SplitLosesNothing ==
  out # NoArg
    => NoSpaces(ConcatTexts(SummaryUnits(out.first)))
         = NoSpaces(arg.rightWingArticle.summary)

\* the units that follow the lead-in of the socialist talking points
PointUnits(queue) ==
  UnitsBetween(queue,
               [cardId |-> "socialist-points",
                text |-> <<"Socialist", " ", "Talking", " ", "Points", ".">>],
               NoArg)

\* C25: each talking point that is not blank contributes exactly one unit: the
\* number of units after a talking-points lead-in is the number of non-blank
\* talking points of that section.
C25_OneUnitPerPoint ==
  out # NoArg
    => Len(PointUnits(out.first))
         = Len(SelectSeq(arg.socialistTalkingPoints, LAMBDA point : ~Blank(point)))

\* ------------------------------------------------------ claims, the session
\* C26: in every reachable state, also after a callback or a timer that fires
\* after a stop, a stopped session has an empty queue, cursor 0 and no active
\* section; and the cursor is always from 0 to the length of the queue.
C26_StoppedSessionEmpty ==
  /\ globalSpeechState = "stopped"
       => /\ speechQueueRef.utterances = <<>>
          /\ speechQueueRef.currentIndex = 0
          /\ currentlySpeakingCard = NoCard
  /\ speechQueueRef.currentIndex \in 0..Len(speechQueueRef.utterances)

\* C27: while the session is playing or paused, the queue narrated is the one
\* built from the AnalysisResult stored: the stored result is neither replaced
\* nor cleared while a session built from another result goes on.
C27_QueueOfStoredResult ==
  globalSpeechState \in {"playing", "paused"}
    => /\ analysis # NoAnalysis
       /\ speechQueueRef.utterances = Utterances(analysis)

\* ------------------------------------------------------ claims, loading
\* C28: loading is true in every state in which at least one getAnalysis call
\* is in flight and false in every state in which none is, two overlapping
\* calls included.
C28_LoadingWhileInFlight ==
  loading <=> calls # {}

\* ------------------------------------------------------ claims, the voice kept
\* C29: once the user has selected a voice, the selected voice changes only by
\* another selection of the user: a voice-list event that comes later never
\* puts the automatic default in its place.
C29_UserVoiceKept ==
  [][(userVoice # NoURI /\ selectedVoiceURI' # selectedVoiceURI)
       => \E i \in DOMAIN voices : SelectVoice(voices[i].voiceURI)]_vars

\* ------------------------------------------------------ claims, the order
\* the place of a section in the order the queue is built in
SectionRank(cardId) ==
  CASE cardId = "right-wing" -> 1
    [] cardId = "left-wing" -> 2
    [] cardId = "leftist-points" -> 3
    [] cardId = "socialist-points" -> 4

\* the active section stays or moves to a later section
SectionForward ==
  (currentlySpeakingCard # NoCard /\ currentlySpeakingCard' # currentlySpeakingCard)
    => /\ currentlySpeakingCard' # NoCard
       /\ SectionRank(currentlySpeakingCard') > SectionRank(currentlySpeakingCard)

\* the cursor moves by one, with the end of the unit the device was speaking
CursorStep ==
  speechQueueRef.currentIndex' # speechQueueRef.currentIndex
    => /\ speechQueueRef.currentIndex' = speechQueueRef.currentIndex + 1
       /\ synth.queue # <<>>
       /\ synth'.queue = Tail(synth.queue)

\* C30: within one session the active section only moves forward through the
\* order right-wing, left-wing, leftist-points, socialist-points and never goes
\* back to a section it has left; the cursor goes up by exactly one with each
\* 'end' of a unit of the session, so that no unit is skipped or repeated.
C30_ForwardOnly ==
  [][(globalSpeechState # "stopped" /\ globalSpeechState' # "stopped")
       => SectionForward /\ CursorStep]_vars

\* the section part of C30 alone
C30_SectionPart ==
  [][(globalSpeechState # "stopped" /\ globalSpeechState' # "stopped")
       => SectionForward]_vars
====
